---- MODULE Spec2Model ----
(***************************************************************************)
(* Model of the batched upload flow of st_app_cloud.py: one Streamlit      *)
(* session re-running main(), the rate-limited chunk loop, the asyncio     *)
(* upload tasks of a chunk and the presigned-URL list in session state.    *)
(***************************************************************************)
EXTENDS Integers, Sequences, FiniteSets, TLC

\* ---- bounds of the model ------------------------------------------------
MaxFiles == 4
MaxLimit == 2
MaxRuns == 2

VARIABLES
  run,                    \* number of the current (or last) run of main()
  pc,                     \* position of main(): idle, acquire, loop, gather, report, exit
  n_rate_limit,           \* st.secrets['n_rate_limit']
  authentication_status,  \* "None", "False" or "True"
  uploaded_files,         \* list of submitted file handles (file ids)
  uploaded,               \* form_submit_button('Upload')
  required_presigned_url, \* checkbox 'Generate presigned url'
  n,                      \* number of loop iterations, div + 1
  i,                      \* loop index of for i in range(n)
  chunk_files,            \* the slice handed to async_upload_files
  task,                   \* per file: state or result of its upload task
  created,                \* per file: number of tasks created for it in this run
  stored,                 \* files whose upload_fileobj succeeded in this run
  presign_requested,      \* files for which generate_presigned_url was called
  gen_urls,               \* st.session_state['gen_urls']
  prior_urls,             \* gen_urls was non-empty when this run was entered
  errors,                 \* st.error messages of this run, <<kind, file>>
  progress,               \* values passed to bar.progress in the loop, <<num, den>>
  s3,                     \* the client handle of async with get_s3()
  df,                     \* rows of the rendered table, <<index, url>>
  csv,                    \* <<>> for None, <<lines>> for the bytes of convert_df
  banner,                 \* st.success('Done, ...') was rendered
  download,               \* st.download_button was rendered
  crashed,                \* an exception left main()
  s3_acquired,            \* times the client was entered in this run
  username,               \* login result: the authenticated username, <<>> for none
  rendered,               \* page elements rendered by the login branch of this run
  title,                  \* username shown by st.title('Hello, ...'), <<>> if no title
  object_name             \* per running task: the object key computed by upload(), <<>> if none

vars == <<run, pc, n_rate_limit, authentication_status, uploaded_files, uploaded,
          required_presigned_url, n, i, chunk_files, task, created, stored,
          presign_requested, gen_urls, prior_urls, errors, progress, s3, df, csv,
          banner, download, crashed,
          s3_acquired,
          username,
          rendered,
          title,
          object_name>>

Files == 1..MaxFiles
AuthStatuses == {"None", "False", "True"}

\* the usernames of st.secrets.credentials, as strings of characters
Users == {<<"u">>, <<"v">>}

\* name, authentication_status, username = authenticator.login(...): the
\* username of the session is set by a successful login only
LoginUsername(st, user) == IF st = "True" THEN user ELSE <<>>

\* if authentication_status: ... elif authentication_status is False: ...
\* elif authentication_status is None: ...
PageElementsFalsy(st) ==
  (IF st = "True" THEN {"title", "form"} ELSE {"error"})
    \cup (IF st = "None" THEN {"warning"} ELSE {})
PageElements(st) ==
  IF st = "True" THEN {"title", "form"}
  ELSE IF st = "False" THEN {"error"}
  ELSE IF st = "None" THEN {"warning"}
  ELSE {}

Min(a, b) == IF a < b THEN a ELSE b

\* Python list slice s[a:b] for 0 <= a, 0 <= b: both ends are clamped to len(s)
Slice(s, a, b) == SubSeq(s, Min(a, Len(s)) + 1, Min(b, Len(s)))

\* the set of elements of a sequence
Range(s) == {s[k] : k \in 1..Len(s)}

\* the names of the submitted files, as strings of characters; file f of a
\* submission carries the f-th name, cyclically
FileNames ==
  << <<"a", ".", "t">>,
     <<"a">>,
     <<"d", "/", "a", ".", "b", ".", "t">>,
     <<".", "h">> >>
FileName(f) == FileNames[((f - 1) % Len(FileNames)) + 1]

\* values of uuid4().hex, shortened to 8 characters
HexSamples ==
  { <<"0", "1", "2", "3", "4", "5", "6", "7">>,
    <<"a", "b", "c", "d", "e", "f", "8", "9">> }

\* position of the last occurrence of character c in s, 0 if there is none
LastIndexOf(s, c) ==
  IF \E k \in 1..Len(s) : s[k] = c
    THEN CHOOSE k \in 1..Len(s) : s[k] = c /\ \A j \in (k + 1)..Len(s) : s[j] # c
    ELSE 0

\* Path(filename).name: the last component of the path
PathName(s) == SubSeq(s, LastIndexOf(s, "/") + 1, Len(s))

\* Path(filename).suffix: from the last dot of the name, unless that dot is the
\* first or the last character of the name
PathSuffix(s) ==
  LET nm == PathName(s)
      k == LastIndexOf(nm, ".")
  IN IF 1 < k /\ k < Len(nm) THEN SubSeq(nm, k, Len(nm)) ELSE <<>>

\* Path(filename).stem: the name without its suffix
PathStem(s) ==
  LET nm == PathName(s)
      k == LastIndexOf(nm, ".")
  IN IF 1 < k /\ k < Len(nm) THEN SubSeq(nm, 1, k - 1) ELSE nm

\* get_username(): st.session_state['username']
get_username == username

\* object_name = username + '/' + dummy_p.stem + '_' + uuid4().hex[:6] + dummy_p.suffix
ObjectNameRawName(user, name, hex) ==
  user \o <<"/">> \o name \o <<"_">> \o Slice(hex, 0, 6)
ObjectName(user, name, hex) ==
  user \o <<"/">> \o PathStem(name) \o <<"_">> \o Slice(hex, 0, 6) \o PathSuffix(name)

\* a URL names the object it was signed for: the run and the file of the upload
Url(r, f) == <<r, f>>

\* st.session_state['gen_urls'].append(response)
AppendUrlOverwrite(urls, u) == <<u>>
AppendUrl(urls, u) == Append(urls, u)

\* st.session_state['gen_urls'] = []
KeptGenUrls == gen_urls
ClearedGenUrls == <<>>

\* if authentication_status: ... if uploaded_files and uploaded: the branch that
\* uploads is taken by an authenticated run whose form was submitted with files
SubmitBranchAnyFiles(st, nf, up) == st = "True" /\ nf > 0
SubmitBranch(st, nf, up) == st = "True" /\ nf > 0 /\ up

\* div, _ = divmod(n_files, n_rate_limit); n = div+1
LoopCount(n_files, limit) == (n_files \div limit) + 1

\* uploaded_files[(i)*n_rate_limit: (i+1)*n_rate_limit]
ChunkSliceOverlap(fs, idx, limit) == Slice(fs, idx * limit, (idx + 1) * limit + 1)
ChunkSlice(fs, idx, limit) == Slice(fs, idx * limit, (idx + 1) * limit)

\* a task has settled: it returned a URL, returned None or ended with an exception
Settled(f) == task[f] \in {"url", "none", "exc", "cancelled"}

\* asyncio.gather(*tasks, return_exceptions=return_exceptions)
return_exceptions_off == FALSE
return_exceptions == TRUE

\* gather returns its list of results once every awaited task is done
GatherAnyDone(fs) == fs = <<>> \/ \E k \in 1..Len(fs) : Settled(fs[k])
GatherDone(fs) == \A k \in 1..Len(fs) : Settled(fs[k])

\* without return_exceptions the first exception of a task is raised into main()
GatherRaises(fs) == ~return_exceptions /\ \E k \in 1..Len(fs) : task[fs[k]] = "exc"

\* except Exception around upload_fileobj: st.error(...) and return (None)
UploadExceptRaises == [result |-> "exc", reported |-> FALSE]
UploadExcept == [result |-> "none", reported |-> TRUE]

\* if required_presigned_url: return await create_presigned_url(...)
PresignAlways(flag) == TRUE
PresignWanted(flag) == flag

\* except ClientError in create_presigned_url: st.error(...) and return (None)
PresignExcept == [result |-> "none", reported |-> TRUE]

\* async with get_s3() as s3: the client is entered at the top of the block and
\* closed when the block is left
ClientEnter == "open"
ClientExitLeak == "open"
ClientExit == "closed"

\* df = pd.DataFrame(urls, index=range(1, len(urls)+1), columns=['gen_url'])
DataFrame(urls) == [k \in 1..Len(urls) |-> <<k, urls[k]>>]

\* df.to_csv(index=False, header=False).encode('utf-8'): one line per row, the
\* index column dropped
convert_df(frame) == [k \in 1..Len(frame) |-> frame[k][2]]

\* truth value of csv: None and empty bytes are false
TruthyNotNone(c) == Len(c) = 1
Truthy(c) == Len(c) = 1 /\ Len(c[1]) > 0

Init ==
  /\ run = 0
  /\ pc = "idle"
  /\ n_rate_limit \in 1..MaxLimit
  /\ authentication_status = "None"
  /\ uploaded_files = <<>>
  /\ uploaded = FALSE
  /\ required_presigned_url = FALSE
  /\ n = 0
  /\ i = 0
  /\ chunk_files = <<>>
  /\ task = [f \in Files |-> "absent"]
  /\ created = [f \in Files |-> 0]
  /\ stored = {}
  /\ presign_requested = {}
  /\ gen_urls = <<>>
  /\ prior_urls = FALSE
  /\ errors = {}
  /\ progress = <<>>
  /\ s3 = "closed"
  /\ df = <<>>
  /\ csv = <<>>
  /\ banner = FALSE
  /\ download = FALSE
  /\ crashed = FALSE
  /\ s3_acquired = 0
  /\ username = <<>>
  /\ rendered = {}
  /\ title = <<>>
  /\ object_name = [f \in Files |-> <<>>]

\* main() from its entry to the first suspension: the reset of gen_urls, the
\* login, the form, and for a submission the set-up of the chunk loop
MainEntry ==
  /\ pc = "idle"
  /\ run < MaxRuns
  /\ run' = run + 1
  /\ prior_urls' = (gen_urls # <<>>)
  /\ gen_urls' = ClearedGenUrls
  /\ \E st \in AuthStatuses, user \in Users, nf \in 0..MaxFiles, up \in BOOLEAN,
        fl \in BOOLEAN :
       /\ authentication_status' = st
       /\ username' = LoginUsername(st, user)
       /\ rendered' = PageElements(st)
       /\ title' = IF "title" \in PageElements(st) THEN LoginUsername(st, user) ELSE <<>>
       /\ uploaded_files' = IF st = "True" THEN [k \in 1..nf |-> k] ELSE <<>>
       /\ uploaded' = (st = "True" /\ up)
       /\ required_presigned_url' = (st = "True" /\ fl)
       /\ IF SubmitBranch(st, nf, up)
            THEN /\ n' = LoopCount(nf, n_rate_limit)
                 /\ pc' = "acquire"
            ELSE /\ n' = 0
                 /\ pc' = "idle"
  /\ i' = 0
  /\ chunk_files' = <<>>
  /\ task' = [f \in Files |-> "absent"]
  /\ created' = [f \in Files |-> 0]
  /\ stored' = {}
  /\ presign_requested' = {}
  /\ errors' = {}
  /\ progress' = <<>>
  /\ df' = <<>>
  /\ csv' = <<>>
  /\ banner' = FALSE
  /\ download' = FALSE
  /\ crashed' = FALSE
  /\ s3_acquired' = 0
  /\ object_name' = [f \in Files |-> <<>>]
  /\ UNCHANGED <<n_rate_limit, s3>>

\* async with get_s3() as s3: the client is entered
AcquireS3 ==
  /\ pc = "acquire"
  /\ s3' = ClientEnter
  /\ s3_acquired' = s3_acquired + 1
  /\ pc' = IF i < n THEN "loop" ELSE "report"
  /\ UNCHANGED <<run, n_rate_limit, authentication_status, uploaded_files, uploaded,
                 required_presigned_url, n, i, chunk_files, task, created, stored,
                 presign_requested, gen_urls, prior_urls, errors, progress, df, csv,
                 banner, download, crashed,
                 username,
                 rendered,
                 title,
                 object_name>>

\* one iteration of the loop up to the await: the slice, async_upload_files
\* creating one task per file of the slice, and the await of gather
ChunkStart ==
  /\ pc = "loop"
  /\ LET fs == ChunkSlice(uploaded_files, i, n_rate_limit) IN
       /\ chunk_files' = fs
       /\ task' = [f \in Files |-> IF f \in Range(fs) THEN "created" ELSE task[f]]
       /\ created' = [f \in Files |->
                        created[f] + Cardinality({k \in 1..Len(fs) : fs[k] = f})]
  /\ pc' = "gather"
  /\ UNCHANGED <<run, n_rate_limit, authentication_status, uploaded_files, uploaded,
                 required_presigned_url, n, i, stored, presign_requested, gen_urls,
                 prior_urls, errors, progress, s3, df, csv, banner, download, crashed,
                 s3_acquired,
                 username,
                 rendered,
                 title,
                 object_name>>

\* the event loop runs the created tasks in creation order; upload() computes
\* the object name and awaits s3.upload_fileobj
TaskStart(f) ==
  /\ pc = "gather"
  /\ task[f] = "created"
  /\ \E k \in 1..Len(chunk_files) :
       /\ chunk_files[k] = f
       /\ \A j \in 1..(k - 1) : task[chunk_files[j]] # "created"
  /\ task' = [task EXCEPT ![f] = "writing"]
  /\ \E hex \in HexSamples :
       object_name' = [object_name EXCEPT ![f] = ObjectName(get_username, FileName(f), hex)]
  /\ UNCHANGED <<run, pc, n_rate_limit, authentication_status, uploaded_files,
                 uploaded, required_presigned_url, n, i, chunk_files, created, stored,
                 presign_requested, gen_urls, prior_urls, errors, progress, s3, df,
                 csv, banner, download, crashed,
                 s3_acquired,
                 username,
                 rendered,
                 title>>

\* upload_fileobj returns: the object is stored; with the flag set upload()
\* goes on to create_presigned_url, else it returns None
WriteOk(f) ==
  /\ pc = "gather"
  /\ task[f] = "writing"
  /\ stored' = stored \cup {f}
  /\ IF PresignWanted(required_presigned_url)
       THEN /\ task' = [task EXCEPT ![f] = "signing"]
            /\ presign_requested' = presign_requested \cup {f}
            /\ UNCHANGED object_name
       ELSE /\ task' = [task EXCEPT ![f] = "none"]
            /\ object_name' = [object_name EXCEPT ![f] = <<>>]
            /\ UNCHANGED presign_requested
  /\ UNCHANGED <<run, pc, n_rate_limit, authentication_status, uploaded_files,
                 uploaded, required_presigned_url, n, i, chunk_files, created,
                 gen_urls, prior_urls, errors, progress, s3, df, csv, banner,
                 download, crashed,
                 s3_acquired,
                 username,
                 rendered,
                 title>>

\* upload_fileobj raises: the except clause of upload()
WriteFail(f) ==
  /\ pc = "gather"
  /\ task[f] = "writing"
  /\ task' = [task EXCEPT ![f] = UploadExcept.result]
  /\ object_name' = [object_name EXCEPT ![f] = <<>>]
  /\ errors' = IF UploadExcept.reported THEN errors \cup {<<"upload", f>>} ELSE errors
  /\ UNCHANGED <<run, pc, n_rate_limit, authentication_status, uploaded_files,
                 uploaded, required_presigned_url, n, i, chunk_files, created, stored,
                 presign_requested, gen_urls, prior_urls, progress, s3, df, csv,
                 banner, download, crashed,
                 s3_acquired,
                 username,
                 rendered,
                 title>>

\* generate_presigned_url returns: the URL is appended to gen_urls and returned
PresignOk(f) ==
  /\ pc = "gather"
  /\ task[f] = "signing"
  /\ gen_urls' = AppendUrl(gen_urls, Url(run, f))
  /\ task' = [task EXCEPT ![f] = "url"]
  /\ object_name' = [object_name EXCEPT ![f] = <<>>]
  /\ UNCHANGED <<run, pc, n_rate_limit, authentication_status, uploaded_files,
                 uploaded, required_presigned_url, n, i, chunk_files, created, stored,
                 presign_requested, prior_urls, errors, progress, s3, df, csv, banner,
                 download, crashed,
                 s3_acquired,
                 username,
                 rendered,
                 title>>

\* generate_presigned_url raises ClientError: the except clause of
\* create_presigned_url
PresignClientError(f) ==
  /\ pc = "gather"
  /\ task[f] = "signing"
  /\ task' = [task EXCEPT ![f] = PresignExcept.result]
  /\ object_name' = [object_name EXCEPT ![f] = <<>>]
  /\ errors' = IF PresignExcept.reported THEN errors \cup {<<"presign", f>>} ELSE errors
  /\ UNCHANGED <<run, pc, n_rate_limit, authentication_status, uploaded_files,
                 uploaded, required_presigned_url, n, i, chunk_files, created, stored,
                 presign_requested, gen_urls, prior_urls, progress, s3, df, csv,
                 banner, download, crashed,
                 s3_acquired,
                 username,
                 rendered,
                 title>>

\* generate_presigned_url raises an exception that is not a ClientError: no
\* except clause matches, the exception leaves create_presigned_url and
\* upload(), and the task ends with it
PresignOtherError(f) ==
  /\ pc = "gather"
  /\ task[f] = "signing"
  /\ task' = [task EXCEPT ![f] = "exc"]
  /\ object_name' = [object_name EXCEPT ![f] = <<>>]
  /\ UNCHANGED <<run, pc, n_rate_limit, authentication_status, uploaded_files,
                 uploaded, required_presigned_url, n, i, chunk_files, created, stored,
                 presign_requested, gen_urls, prior_urls, errors, progress, s3, df,
                 csv, banner, download, crashed,
                 s3_acquired,
                 username,
                 rendered,
                 title>>

\* the await of gather ends: the progress bar is set to (i+1)/n and the loop
\* goes on; an exception raised by gather leaves main() through the async with
GatherReturn ==
  /\ pc = "gather"
  /\ IF GatherRaises(chunk_files)
       THEN /\ crashed' = TRUE
            /\ s3' = ClientExit
            /\ pc' = "idle"
            /\ task' = [f \in Files |->
                          IF task[f] \in {"created", "writing", "signing"}
                            THEN "cancelled" ELSE task[f]]
            /\ object_name' = [f \in Files |-> <<>>]
            /\ UNCHANGED <<i, progress>>
       ELSE /\ GatherDone(chunk_files)
            /\ progress' = Append(progress, <<i + 1, n>>)
            /\ i' = i + 1
            /\ pc' = IF i + 1 < n THEN "loop" ELSE "report"
            /\ UNCHANGED <<task, s3, crashed, object_name>>
  /\ UNCHANGED <<run, n_rate_limit, authentication_status, uploaded_files, uploaded,
                 required_presigned_url, n, chunk_files, created, stored,
                 presign_requested, gen_urls, prior_urls, errors, df, csv, banner,
                 download,
                 s3_acquired,
                 username,
                 rendered,
                 title>>

\* after the loop: the table and the csv when links were requested, then the
\* success banner
Report ==
  /\ pc = "report"
  /\ IF required_presigned_url
       THEN /\ df' = DataFrame(gen_urls)
            /\ csv' = <<convert_df(DataFrame(gen_urls))>>
       ELSE UNCHANGED <<df, csv>>
  /\ banner' = TRUE
  /\ pc' = "exit"
  /\ UNCHANGED <<run, n_rate_limit, authentication_status, uploaded_files, uploaded,
                 required_presigned_url, n, i, chunk_files, task, created, stored,
                 presign_requested, gen_urls, prior_urls, errors, progress, s3,
                 download, crashed,
                 s3_acquired,
                 username,
                 rendered,
                 title,
                 object_name>>

\* the async with block is left and the client closed; then the download
\* button is rendered if uploaded_files and uploaded and csv
Finish ==
  /\ pc = "exit"
  /\ s3' = ClientExit
  /\ download' = (uploaded_files # <<>> /\ uploaded /\ Truthy(csv))
  /\ pc' = "idle"
  /\ UNCHANGED <<run, n_rate_limit, authentication_status, uploaded_files, uploaded,
                 required_presigned_url, n, i, chunk_files, task, created, stored,
                 presign_requested, gen_urls, prior_urls, errors, progress, df, csv,
                 banner, crashed,
                 s3_acquired,
                 username,
                 rendered,
                 title,
                 object_name>>

Next ==
  \/ MainEntry
  \/ AcquireS3
  \/ ChunkStart
  \/ \E f \in Files : TaskStart(f)
  \/ \E f \in Files : WriteOk(f)
  \/ \E f \in Files : WriteFail(f)
  \/ \E f \in Files : PresignOk(f)
  \/ \E f \in Files : PresignClientError(f)
  \/ \E f \in Files : PresignOtherError(f)
  \/ GatherReturn
  \/ Report
  \/ Finish

Spec == Init /\ [][Next]_vars

\* every storage call eventually returns or fails, and the event loop keeps
\* running the steps of main() and of the tasks
FairSpec ==
  /\ Spec
  /\ WF_vars(AcquireS3)
  /\ WF_vars(ChunkStart)
  /\ \A f \in Files : WF_vars(TaskStart(f))
  /\ \A f \in Files : WF_vars(WriteOk(f) \/ WriteFail(f))
  /\ \A f \in Files :
       WF_vars(PresignOk(f) \/ PresignClientError(f) \/ PresignOtherError(f))
  /\ WF_vars(GatherReturn)
  /\ WF_vars(Report)
  /\ WF_vars(Finish)

TypeOK ==
  /\ run \in 0..MaxRuns
  /\ pc \in {"idle", "acquire", "loop", "gather", "report", "exit"}
  /\ n_rate_limit \in 1..MaxLimit
  /\ authentication_status \in AuthStatuses
  /\ Len(uploaded_files) <= MaxFiles
  /\ \A f \in Files :
       task[f] \in {"absent", "created", "writing", "signing", "url", "none", "exc",
                    "cancelled"}

\* ---- helpers of the properties -------------------------------------------
Max(a, b) == IF a > b THEN a ELSE b

CeilDiv(a, b) == (a + b - 1) \div b

n_files == Len(uploaded_files)

\* index of the chunk that holds position p (1-based) of the submitted list
ChunkOf(p) == (p - 1) \div n_rate_limit

\* the files at indices [idx*L, (idx+1)*L) of the submitted list
ExpectedChunk(idx) ==
  [k \in 1..Max(0, Min(n_rate_limit, n_files - idx * n_rate_limit)) |->
     uploaded_files[idx * n_rate_limit + k]]

\* the loop of a submission has ended
LoopOver == uploaded /\ n_files > 0 /\ (pc \in {"report", "exit"} \/ (pc = "idle" /\ ~crashed))

InFlight == {f \in Files : task[f] \in {"writing", "signing"}}

\* the URLs in gen_urls that belong to the files of a set
UrlsOf(fs) == {k \in 1..Len(gen_urls) : gen_urls[k][2] \in fs}

\* ---- C1 ------------------------------------------------------------------
\* C1: when a submission of N files with limit L has ended, the number of loop
\* iterations (calls of async_upload_files, progress updates) is ceil(N/L);
\* a submission of no files runs no iteration.
C1_ChunkCountIsCeil ==
  (pc = "idle" /\ uploaded /\ ~crashed) =>
     /\ i = CeilDiv(n_files, n_rate_limit)
     /\ Len(progress) = CeilDiv(n_files, n_rate_limit)

\* ---- C2 ------------------------------------------------------------------
\* C2: chunk i is exactly the files at indices [i*L, (i+1)*L) of the submitted
\* list, it holds at most L files, no file ever gets a second task, and when
\* the loop has ended every submitted file got exactly one task.
C2_ChunksPartitionFiles ==
  /\ pc = "gather" => chunk_files = ExpectedChunk(i)
  /\ Len(chunk_files) <= n_rate_limit
  /\ \A f \in Files : created[f] <= 1
  /\ LoopOver => \A p \in 1..n_files : created[uploaded_files[p]] = 1

C2_Witness ==
  /\ LoopOver
  /\ n_rate_limit > 1
  /\ n_files > n_rate_limit
  /\ n_files % n_rate_limit # 0

\* ---- C3 ------------------------------------------------------------------
\* C3: a task of a later chunk exists only when every task of every earlier
\* chunk has settled, whatever those tasks ended with.
C3_ChunksSequential ==
  \A p, q \in 1..n_files :
    (ChunkOf(p) < ChunkOf(q) /\ task[uploaded_files[q]] # "absent")
      => Settled(uploaded_files[p])

C3_Witness ==
  \E p, q, r \in 1..n_files :
    /\ ChunkOf(p) < ChunkOf(r)
    /\ ChunkOf(q) < ChunkOf(r)
    /\ task[uploaded_files[p]] = "exc"
    /\ <<"upload", uploaded_files[q]>> \in errors
    /\ task[uploaded_files[r]] = "writing"

\* ---- C4 ------------------------------------------------------------------
\* C4: a file whose storage write failed has its failure reported and its task
\* resolved to no result; no task is ever cancelled and the batch does not
\* fail; when the loop has ended every file has a settled task; and a chunk of
\* m files with one failed write and m-1 generated links has exactly m-1 URLs
\* in gen_urls.
C4_WriteFailureIsolated ==
  /\ \A f \in Files :
       (Settled(f) /\ f \notin stored)
         => (task[f] = "none" /\ <<"upload", f>> \in errors)
  /\ \A f \in Files : task[f] # "cancelled"
  /\ ~crashed
  /\ LoopOver => \A p \in 1..n_files : Settled(uploaded_files[p])
  /\ LET chunk == Range(chunk_files)
         failed == {f \in chunk : <<"upload", f>> \in errors}
         linked == {f \in chunk : task[f] = "url"}
     IN (required_presigned_url /\ Cardinality(failed) = 1
           /\ Cardinality(linked) = Cardinality(chunk) - 1)
          => Cardinality(UrlsOf(chunk)) = Cardinality(chunk) - 1

C4_Witness ==
  /\ LoopOver
  /\ required_presigned_url
  /\ \E p, q, r \in 1..n_files :
       /\ p # q
       /\ ChunkOf(p) = ChunkOf(q)
       /\ ChunkOf(p) < ChunkOf(r)
       /\ <<"upload", uploaded_files[p]>> \in errors
       /\ task[uploaded_files[q]] = "url"
       /\ task[uploaded_files[r]] = "url"

\* ---- C5 ------------------------------------------------------------------
\* C5: every URL in gen_urls, in the table and in the csv was generated in the
\* current run, and gen_urls is empty as long as the run has created no task.
C5_NoUrlOfEarlierRun ==
  /\ \A k \in 1..Len(gen_urls) : gen_urls[k][1] = run
  /\ \A k \in 1..Len(df) : df[k][2][1] = run
  /\ Truthy(csv) => \A k \in 1..Len(csv[1]) : csv[1][k][1] = run
  /\ (\A f \in Files : task[f] = "absent") => gen_urls = <<>>

C5_Witness ==
  /\ run = 2
  /\ prior_urls
  /\ pc = "idle"
  /\ download
  /\ gen_urls # <<>>

\* ---- C6 ------------------------------------------------------------------
\* C6: with every storage call eventually answered, a submission always
\* reaches the success banner with every chunk processed and every file's task
\* settled, whatever fails per file; no exception leaves main(); and at the end
\* of a run with links requested and at least one generated, the download is
\* offered and its lines are exactly the links generated in this run.
C6_Done ==
  /\ pc = "idle"
  /\ banner
  /\ i = n
  /\ \A p \in 1..n_files : Settled(uploaded_files[p])

C6_DownloadExact ==
  (pc = "idle" /\ banner /\ required_presigned_url
     /\ \E f \in Files : task[f] = "url")
    => /\ download
       /\ Len(csv[1]) = Cardinality({f \in Files : task[f] = "url"})
       /\ Range(csv[1]) = {Url(run, f) : f \in {g \in Files : task[g] = "url"}}

C6_PartialFailureCompletes ==
  /\ (pc = "acquire") ~> C6_Done
  /\ [](~crashed)
  /\ []C6_DownloadExact

C6_Witness ==
  /\ C6_Done
  /\ download
  /\ \E f, g, h \in Files :
       /\ <<"upload", f>> \in errors
       /\ task[g] = "exc"
       /\ task[h] = "url"

\* ---- C7 ------------------------------------------------------------------
\* C7: a file whose write succeeded and whose link generation failed has the
\* error reported, its task resolved to None and no entry in gen_urls; a file
\* whose link generation succeeded has exactly one entry in gen_urls.
C7_PresignFailureReported ==
  \A f \in presign_requested :
    /\ (Settled(f) /\ task[f] # "url")
         => /\ task[f] = "none"
            /\ <<"presign", f>> \in errors
            /\ UrlsOf({f}) = {}
    /\ task[f] = "url" => Cardinality(UrlsOf({f})) = 1

\* ---- C8 ------------------------------------------------------------------
\* C8: generate_presigned_url is called for a file only after that file's
\* write succeeded and only with the link flag set; link-generation failures
\* and the URLs in gen_urls belong to stored objects only.
C8_PresignOnlyAfterWrite ==
  /\ presign_requested \subseteq stored
  /\ presign_requested # {} => required_presigned_url
  /\ \A f \in Files : task[f] \in {"signing", "url", "exc"} => f \in stored
  /\ \A f \in Files : <<"presign", f>> \in errors => f \in stored
  /\ \A k \in 1..Len(gen_urls) : gen_urls[k][2] \in stored
  /\ \A f \in Files : task[f] = "writing" => UrlsOf({f}) = {}

C8_Witness ==
  /\ \E f, g \in Files :
       /\ <<"upload", f>> \in errors
       /\ <<"presign", g>> \in errors
  /\ gen_urls # <<>>
  /\ \E f \in Files : task[f] = "signing"

\* ---- C9 ------------------------------------------------------------------
\* C9: the number of upload tasks started and not yet settled never exceeds
\* the rate limit.
C9_InFlightAtMostLimit ==
  /\ Cardinality(InFlight) <= n_rate_limit
  /\ Cardinality({f \in Files : task[f] = "created"} \cup InFlight) <= n_rate_limit

C9_Witness ==
  /\ Cardinality(InFlight) = n_rate_limit
  /\ n_rate_limit > 1
  /\ i > 0

\* ---- C10 -----------------------------------------------------------------
\* C10: the k-th progress value of a submission is k / ceil(N/L), set only
\* after the tasks of chunk k-1 have settled; the values increase strictly,
\* never exceed 1 and the value after the last chunk is 1.
C10_ProgressFractions ==
  /\ \A k \in 1..Len(progress) :
       /\ progress[k][1] * CeilDiv(n_files, n_rate_limit) = k * progress[k][2]
       /\ progress[k][1] <= progress[k][2]
       /\ \A p \in 1..n_files : ChunkOf(p) < k => Settled(uploaded_files[p])
  /\ \A k \in 1..(Len(progress) - 1) :
       progress[k][1] * progress[k + 1][2] < progress[k + 1][1] * progress[k][2]
  /\ LoopOver => progress[Len(progress)][1] = progress[Len(progress)][2]

\* ---- C11 -----------------------------------------------------------------
\* C11: a submission enters the storage client exactly once; every task that is
\* created, writing or signing exists while the client is open; the client is
\* open only inside a submission and is closed whenever main() is not running.
C11_ClientScoped ==
  /\ s3_acquired <= 1
  /\ LoopOver => s3_acquired = 1
  /\ \A f \in Files : task[f] \in {"created", "writing", "signing"} => s3 = "open"
  /\ s3 = "open" => (pc \in {"loop", "gather", "report", "exit"} /\ s3_acquired = 1)
  /\ pc = "idle" => s3 = "closed"

C11_Witness ==
  /\ pc = "idle"
  /\ banner
  /\ s3 = "closed"
  /\ s3_acquired = 1
  /\ n_files > n_rate_limit
  /\ \E f, g, h \in Files :
       /\ <<"upload", f>> \in errors
       /\ task[g] = "exc"
       /\ task[h] = "url"

\* ---- C12 -----------------------------------------------------------------
\* C12: every run renders exactly one of the warning, the error and the
\* greeting; which one follows the login result (None, False, True); the
\* greeting shows the logged-in username; and the upload form is rendered in
\* the authenticated state only.
C12_PageTriState ==
  run > 0 =>
    /\ Cardinality(rendered \cap {"warning", "error", "title"}) = 1
    /\ "warning" \in rendered <=> authentication_status = "None"
    /\ "error" \in rendered <=> authentication_status = "False"
    /\ "title" \in rendered <=> authentication_status = "True"
    /\ "form" \in rendered <=> authentication_status = "True"
    /\ authentication_status = "True" => (title = username /\ username \in Users)
    /\ authentication_status # "True" => title = <<>>

C12_Witness ==
  /\ run = MaxRuns
  /\ authentication_status = "None"
  /\ rendered = {"warning"}
  /\ prior_urls

\* ---- C13 -----------------------------------------------------------------
\* C13: at the end of a run the download is offered exactly when a link was
\* requested and gen_urls holds at least one URL; without the link flag
\* gen_urls stays empty, no table and no csv are made and no download is
\* offered, while every submitted file still had its write attempted.
C13_DownloadIffLinks ==
  /\ (pc = "idle" /\ run > 0)
       => (download <=> (required_presigned_url /\ gen_urls # <<>>))
  /\ ~required_presigned_url
       => /\ gen_urls = <<>>
          /\ df = <<>>
          /\ csv = <<>>
          /\ ~download
          /\ LoopOver => \A p \in 1..n_files :
                           \/ uploaded_files[p] \in stored
                           \/ <<"upload", uploaded_files[p]>> \in errors

C13_Witness ==
  /\ pc = "idle"
  /\ banner
  /\ required_presigned_url
  /\ stored # {}
  /\ gen_urls = <<>>
  /\ csv = <<<<>>>>
  /\ ~download

\* ---- C14 -----------------------------------------------------------------
\* C14: the object key of every running upload task is the session's username,
\* a slash, the stem of the file's name, an underscore, six hex characters and
\* the suffix of the file's name; its only slash is the one after the username,
\* so the key lies in the namespace of that user and of no other user.
HexDigits == {"0", "1", "2", "3", "4", "5", "6", "7", "8", "9",
              "a", "b", "c", "d", "e", "f"}

\* stem and suffix of the sample file names, written out
StemOfName == << <<"a">>, <<"a">>, <<"a", ".", "b">>, <<".", "h">> >>
SuffixOfName == << <<".", "t">>, <<>>, <<".", "t">>, <<>> >>

\* the part of a key before its first slash
Namespace(key) ==
  IF \E k \in 1..Len(key) : key[k] = "/"
    THEN SubSeq(key, 1, (CHOOSE k \in 1..Len(key) :
                           key[k] = "/" /\ \A j \in 1..(k - 1) : key[j] # "/") - 1)
    ELSE key

C14_KeyForm(f) ==
  LET key == object_name[f]
      x == ((f - 1) % Len(FileNames)) + 1
      stem == StemOfName[x]
      suffix == SuffixOfName[x]
      u == Len(username)
      h == SubSeq(key, u + Len(stem) + 3, u + Len(stem) + 8)
  IN /\ Len(key) = u + 1 + Len(stem) + 1 + 6 + Len(suffix)
     /\ SubSeq(key, 1, u) = username
     /\ key[u + 1] = "/"
     /\ SubSeq(key, u + 2, u + 1 + Len(stem)) = stem
     /\ key[u + Len(stem) + 2] = "_"
     /\ \A k \in 1..6 : h[k] \in HexDigits
     /\ SubSeq(key, u + Len(stem) + 9, Len(key)) = suffix
     /\ Cardinality({k \in 1..Len(key) : key[k] = "/"}) = 1
     /\ Namespace(key) = username
     /\ \A other \in Users \ {username} : Namespace(key) # other

C14_ObjectKeyNamespaced ==
  /\ username \in Users \cup {<<>>}
  /\ \A f \in Files :
       /\ task[f] \in {"writing", "signing"} <=> object_name[f] # <<>>
       /\ object_name[f] # <<>> => (username \in Users /\ C14_KeyForm(f))

C14_Witness ==
  /\ run = 2
  /\ username = <<"v">>
  /\ \E f, g \in Files :
       /\ task[f] = "writing"
       /\ object_name[f] =
            <<"v", "/", "a", ".", "b", "_", "a", "b", "c", "d", "e", "f", ".", "t">>
       /\ task[g] = "signing"
       /\ object_name[g] = <<"v", "/", ".", "h", "_", "0", "1", "2", "3", "4", "5">>

\* ---- C15 -----------------------------------------------------------------
\* C15: within a run every step leaves gen_urls a prefix of its new value; the
\* list grows exactly when a link generation completes, by that file's URL at
\* the end (so it is in completion order and no append is lost); and when the
\* loop has ended it holds one URL for each file whose write and link
\* generation both succeeded, and nothing else.
C15_Linked == {f \in Files : task[f] = "url"}

C15_Step ==
  run' = run =>
    /\ Len(gen_urls) <= Len(gen_urls')
    /\ SubSeq(gen_urls', 1, Len(gen_urls)) = gen_urls
    /\ \A f \in Files :
         (task[f] = "signing" /\ task'[f] = "url")
           => gen_urls' = Append(gen_urls, Url(run, f))
    /\ (\A f \in Files : ~(task[f] = "signing" /\ task'[f] = "url"))
         => gen_urls' = gen_urls

C15_End ==
  LoopOver =>
    /\ Len(gen_urls) = Cardinality(C15_Linked)
    /\ Range(gen_urls) = {Url(run, f) : f \in C15_Linked}
    /\ \A f \in Files :
         f \in C15_Linked <=>
           (f \in stored /\ f \in presign_requested /\ task[f] # "exc"
              /\ <<"presign", f>> \notin errors)

C15_AppendOnly == [][C15_Step]_vars /\ []C15_End

C15_Witness ==
  /\ LoopOver
  /\ Len(gen_urls) >= 2
  /\ gen_urls[1][2] > gen_urls[2][2]
  /\ \E f \in Files : <<"presign", f>> \in errors

\* ---- C16 -----------------------------------------------------------------
\* C16: the storage client is entered, a task exists or an object is stored
\* only in a run that is authenticated and whose form was submitted with at
\* least one file; in every other run main() ends at once with no storage
\* operation and an empty gen_urls.
C16_Submission ==
  authentication_status = "True" /\ uploaded /\ n_files > 0

C16_StorageOnlyOnSubmit ==
  /\ (\/ pc # "idle"
      \/ s3 = "open"
      \/ s3_acquired > 0
      \/ stored # {}
      \/ presign_requested # {}
      \/ \E f \in Files : task[f] # "absent" \/ created[f] > 0)
       => C16_Submission
  /\ ~C16_Submission => (gen_urls = <<>> /\ ~banner /\ ~download)

C16_Witness ==
  /\ run = 2
  /\ prior_urls
  /\ pc = "idle"
  /\ authentication_status = "True"
  /\ n_files > 0
  /\ ~uploaded
  /\ required_presigned_url
  /\ s3_acquired = 0
  /\ gen_urls = <<>>

\* ---- C17 -----------------------------------------------------------------
\* C17: in gen_urls a URL of a file of an earlier chunk is never behind a URL
\* of a file of a later chunk; URLs of one chunk come in any order.
C17_UrlsOrderedByChunk ==
  \A k, l \in 1..Len(gen_urls) :
    k < l => ChunkOf(gen_urls[k][2]) <= ChunkOf(gen_urls[l][2])

C17_Witness ==
  /\ Len(gen_urls) >= 3
  /\ ChunkOf(gen_urls[1][2]) = ChunkOf(gen_urls[2][2])
  /\ gen_urls[1][2] > gen_urls[2][2]
  /\ ChunkOf(gen_urls[2][2]) < ChunkOf(gen_urls[3][2])
====
